---- MODULE Spec2Model ----
(***************************************************************************)
(* Model of the interactive narrowing loop of src/main.py (main), of the    *)
(* candidate pool it gets from search_candidate_diseases, and of the text  *)
(* functions clean_text and extract_symptoms_from_infobox, whose strings   *)
(* are sequences of one-character strings.                                 *)
(*                                                                         *)
(* A candidate is a record [name, symptoms]; symptoms is the deduplicated  *)
(* list that extract_symptoms_from_infobox returned, kept here as a set    *)
(* because main only tests it for emptiness and membership and iterates it *)
(* into a set comprehension.  Strings are TLA+ strings; Python's ordering  *)
(* of them (code point order, digits before letters) is StrOrder.          *)
(***************************************************************************)
EXTENDS Naturals, Integers, Sequences, FiniteSets

\* ---- bounds of the model ----
MaxPool == 2      \* most candidates one search returns
MaxBatch == 2     \* most tokens typed at one prompt

\* ---- the strings of the model, in Python's sort order ----
StrOrder == <<"0", "1", "2", "cough", "fever", "rash">>

Tokens == {StrOrder[i] : i \in 1..Len(StrOrder)}

Rank(s) == CHOOSE i \in 1..Len(StrOrder) : StrOrder[i] = s

\* str.isdigit() and int() on the tokens of the model
DigitVal == [t \in {"0", "1", "2"} |-> IF t = "0" THEN 0 ELSE IF t = "1" THEN 1 ELSE 2]

IsDigit(tok) == tok \in DOMAIN DigitVal

IntOf(tok) == DigitVal[tok]

Range(s) == {s[i] : i \in 1..Len(s)}

\* sorted(S): the elements of S in ascending string order
RECURSIVE Sorted(_)
Sorted(S) ==
  IF S = {} THEN <<>>
  ELSE LET m == CHOOSE x \in S : \A y \in S : Rank(x) <= Rank(y)
       IN <<m>> \o Sorted(S \ {m})

\* seq[idx] with Python's indexing (0-based, negative counts from the end)
PyIndex(seq, idx) == IF idx < 0 THEN seq[Len(seq) + idx + 1] ELSE seq[idx + 1]

\* ---- what the search collaborator can return ----
\* pages the search may hit, in relevance order; a page's infobox may omit
\* the searched symptom or have no symptom row at all
Catalog == <<
  [name |-> "A", symptoms |-> {"cough", "fever"}],
  [name |-> "B", symptoms |-> {"fever", "rash"}],
  [name |-> "C", symptoms |-> {}],
  [name |-> "D", symptoms |-> {"cough", "fever", "rash"}] >>

RECURSIVE SubSeqs(_)
SubSeqs(s) ==
  IF s = <<>> THEN {<<>>}
  ELSE LET rest == SubSeqs(Tail(s))
       IN rest \cup {<<Head(s)>> \o r : r \in rest}

\* search_candidate_diseases: any list of distinct pages, possibly empty
Pools == {p \in SubSeqs(Catalog) : Len(p) <= MaxPool}

\* input().strip().lower().replace(",", " ").split() for an input that is
\* not 'done': any list of tokens, possibly empty
RECURSIVE SeqsUpTo(_)
SeqsUpTo(n) ==
  IF n = 0 THEN {<<>>}
  ELSE LET shorter == SeqsUpTo(n - 1)
       IN shorter \cup {Append(b, t) : b \in {x \in shorter : Len(x) = n - 1}, t \in Tokens}

Batches == SeqsUpTo(MaxBatch)

VARIABLES
  selected,    \* main: selected
  remaining,   \* main: remaining
  next_syms,   \* main: next_syms (the checklist of the current round)
  tokens,      \* main: tokens (the batch read at the prompt)
  ti,          \* position of the for loop in tokens (1-based, next to process)
  pc,          \* "top" | "prompt" | "tokens" | "end"
  outcome,     \* "none" | "Diagnosed" | "Ambiguous" | "Exhausted" | "Aborted"
  result,      \* names printed with the outcome
  exitStatus,  \* process exit status once pc = "end"
  searches,    \* calls of search_candidate_diseases so far
  seedPool,    \* what the search returned
  rounds,      \* batches with a valid checklist number read since the seed
               \* (counted for the user of SpecNumbered)
  txt,         \* clean_text: the string, a sequence of characters
  prev,        \* clean_text: the string before the last call
  passes,      \* clean_text: calls made so far
  cell,        \* extract_symptoms_from_infobox: the value cell td
  items,       \* extract_symptoms_from_infobox: the returned list
  extracted    \* extract_symptoms_from_infobox: it has returned

mainVars == <<selected, remaining, next_syms, tokens, ti, pc, outcome, result, exitStatus, searches, seedPool, rounds>>

cleanVars == <<txt, prev, passes>>

extractVars == <<cell, items, extracted>>

vars == <<mainVars, cleanVars, extractVars>>

Names(rem) == [i \in 1..Len(rem) |-> rem[i].name]

\* ---- pure pieces of main ----

\* the checklist without the `if s not in selected` test
ChecklistUnfiltered(rem, sel) ==
  Sorted(UNION {rem[i].symptoms : i \in 1..Len(rem)})

\* the checklist built from the pool the search returned, not the survivors
ChecklistOfSeedPool(rem, sel) ==
  Sorted({s \in UNION {seedPool[i].symptoms : i \in 1..Len(seedPool)} : s \notin Range(sel)})

\* line 108-111: the checklist of new symptoms
Checklist(rem, sel) ==
  Sorted({s \in UNION {rem[i].symptoms : i \in 1..Len(rem)} : s \notin Range(sel)})

\* line 115 with `len(remaining) >= 1`
IsDiagnosedAtLeastOne(rem, syms, sel) == Len(rem) >= 1 /\ syms = <<>> /\ sel # <<>>

\* line 115
IsDiagnosed(rem, syms, sel) == Len(rem) = 1 /\ syms = <<>> /\ sel # <<>>

\* line 120 asking for more than two candidates
IsAmbiguousMoreThanTwo(rem, syms, sel) == Len(rem) > 2 /\ syms = <<>> /\ sel # <<>>

\* line 120 (reached only when line 115 did not return)
IsAmbiguous(rem, syms, sel) == rem # <<>> /\ syms = <<>> /\ sel # <<>>

\* line 143 without the `and next_syms` test
NumberedWithoutChecklist(tok, sel, syms) == IsDigit(tok) /\ sel # <<>>

\* line 143: the token is read as a checklist number
Numbered(tok, sel, syms) == IsDigit(tok) /\ sel # <<>> /\ syms # <<>>

\* line 145 without the lower bound: index -1 reads the last entry
InRangeNoLower(idx, syms) == idx < Len(syms)

\* line 145
InRange(idx, syms) == 0 <= idx /\ idx < Len(syms)

\* line 164 never recognising a repeated symptom
AlreadyAddedNever(sym, sel) == FALSE

\* line 164 comparing with the last selected symptom only
AlreadyAddedLastOnly(sym, sel) == sel # <<>> /\ sym = sel[Len(sel)]

\* line 164
AlreadyAdded(sym, sel) == sym \in Range(sel)

\* line 172 without the `not d["symptoms"]` disjunct
KeepsListedOnly(d, sym) == sym \in d.symptoms

\* line 172 with the membership test inverted
KeepsInverted(d, sym) == d.symptoms = {} \/ sym \notin d.symptoms

\* line 172
Keeps(d, sym) == d.symptoms = {} \/ sym \in d.symptoms

\* line 171 iterating the pool the search returned instead of `remaining`
FilterPoolOfSeedPool(rem, sym) == SelectSeq(seedPool, LAMBDA d : d.symptoms = {} \/ sym \in d.symptoms)

\* line 170-174
FilterPool(rem, sym) == SelectSeq(rem, LAMBDA d : Keeps(d, sym))

\* line 157, 176 with the emptiness test never true
ExhaustsNever(rem) == FALSE

\* line 157, 176: `if not remaining`
Exhausts(rem) == Len(rem) = 0

\* line 141-151: the symptom a token stands for (when it is not rejected)
SymOf(tok) ==
  IF Numbered(tok, selected, next_syms)
  THEN PyIndex(next_syms, IntOf(tok) - 1)
  ELSE tok

\* line 143-149: a checklist number outside the checklist
Rejected(tok) ==
  Numbered(tok, selected, next_syms) /\ ~InRange(IntOf(tok) - 1, next_syms)

\* a batch holds a number that is a position of the checklist (line 143-145)
HasValidNumber(b, syms) ==
  \E i \in 1..Len(b) : IsDigit(b[i]) /\ 1 <= IntOf(b[i]) /\ IntOf(b[i]) <= Len(syms)

\* line 103-104: main before its first round
MainInit ==
  /\ selected = <<>>
  /\ remaining = <<>>
  /\ next_syms = <<>>
  /\ tokens = <<>>
  /\ ti = 1
  /\ pc = "top"
  /\ outcome = "none"
  /\ result = <<>>
  /\ exitStatus = 0
  /\ searches = 0
  /\ seedPool = <<>>
  /\ rounds = 0

\* clean_text is not being called
CleanIdle == txt = <<>> /\ prev = <<>> /\ passes = 0

\* extract_symptoms_from_infobox is not being called
ExtractIdle == cell = <<>> /\ items = <<>> /\ extracted = FALSE

Init == MainInit /\ CleanIdle /\ ExtractIdle

\* ---- top of the while loop: checklist and termination conditions ----

\* line 108-117
RoundDiagnosed ==
  /\ pc = "top"
  /\ LET syms == Checklist(remaining, selected) IN
       /\ IsDiagnosed(remaining, syms, selected)
       /\ next_syms' = syms
  /\ pc' = "end"
  /\ outcome' = "Diagnosed"
  /\ result' = <<remaining[1].name>>
  /\ UNCHANGED <<selected, remaining, tokens, ti, exitStatus, searches, seedPool>>
  /\ UNCHANGED <<rounds, cleanVars, extractVars>>

\* line 108-124
RoundAmbiguous ==
  /\ pc = "top"
  /\ LET syms == Checklist(remaining, selected) IN
       /\ ~IsDiagnosed(remaining, syms, selected)
       /\ IsAmbiguous(remaining, syms, selected)
       /\ next_syms' = syms
  /\ pc' = "end"
  /\ outcome' = "Ambiguous"
  /\ result' = Names(remaining)
  /\ UNCHANGED <<selected, remaining, tokens, ti, exitStatus, searches, seedPool>>
  /\ UNCHANGED <<rounds, cleanVars, extractVars>>

\* line 108-134: neither condition holds, the loop reaches the prompt
RoundPrompt ==
  /\ pc = "top"
  /\ LET syms == Checklist(remaining, selected) IN
       /\ ~IsDiagnosed(remaining, syms, selected)
       /\ ~IsAmbiguous(remaining, syms, selected)
       /\ next_syms' = syms
  /\ pc' = "prompt"
  /\ UNCHANGED <<selected, remaining, tokens, ti, outcome, result, exitStatus, searches, seedPool>>
  /\ UNCHANGED <<rounds, cleanVars, extractVars>>

\* ---- the prompt ----

\* line 135-137, 182-188: the user types 'done'
ReadDone ==
  /\ pc = "prompt"
  /\ pc' = "end"
  /\ IF Len(remaining) = 1
     THEN outcome' = "Diagnosed" /\ result' = <<remaining[1].name>>
     ELSE outcome' = "Ambiguous" /\ result' = Names(remaining)
  /\ UNCHANGED <<selected, remaining, next_syms, tokens, ti, exitStatus, searches, seedPool>>
  /\ UNCHANGED <<rounds, cleanVars, extractVars>>

\* line 135-141: the user types a batch of tokens
ReadTokens ==
  /\ pc = "prompt"
  /\ \E b \in Batches : tokens' = b
  /\ ti' = 1
  /\ pc' = "tokens"
  /\ UNCHANGED <<selected, remaining, next_syms, outcome, result, exitStatus, searches, seedPool>>
  /\ UNCHANGED <<cleanVars, extractVars>>

\* line 135-141, any batch
ReadBatch ==
  /\ ReadTokens
  /\ UNCHANGED rounds

\* ---- one iteration of `for tok in tokens` ----

AtToken == pc = "tokens" /\ ti <= Len(tokens)

\* line 143-149: invalid number, warning, next token
TokInvalidNumber ==
  /\ AtToken
  /\ Rejected(tokens[ti])
  /\ ti' = ti + 1
  /\ UNCHANGED <<selected, remaining, next_syms, tokens, pc, outcome, result, exitStatus, searches, seedPool>>
  /\ UNCHANGED <<rounds, cleanVars, extractVars>>

\* line 154-161: first symptom, the search returns a pool
TokSeed ==
  /\ AtToken
  /\ ~Rejected(tokens[ti])
  /\ selected = <<>>
  /\ \E pool \in Pools :
       /\ ~Exhausts(pool)
       /\ remaining' = pool
       /\ seedPool' = pool
  /\ selected' = Append(selected, SymOf(tokens[ti]))
  /\ searches' = searches + 1
  /\ ti' = ti + 1
  /\ UNCHANGED <<next_syms, tokens, pc, outcome, result, exitStatus>>
  /\ UNCHANGED <<rounds, cleanVars, extractVars>>

\* line 154-159: first symptom, the search finds nothing
TokSeedEmpty ==
  /\ AtToken
  /\ ~Rejected(tokens[ti])
  /\ selected = <<>>
  /\ \E pool \in Pools :
       /\ Exhausts(pool)
       /\ remaining' = pool
       /\ seedPool' = pool
  /\ selected' = Append(selected, SymOf(tokens[ti]))
  /\ searches' = searches + 1
  /\ pc' = "end"
  /\ outcome' = "Exhausted"
  /\ exitStatus' = 1
  /\ UNCHANGED <<next_syms, tokens, ti, result>>
  /\ UNCHANGED <<rounds, cleanVars, extractVars>>

\* line 155-156, 80-81: the search request raises, main does not catch it
TokSeedSearchFails ==
  /\ AtToken
  /\ ~Rejected(tokens[ti])
  /\ selected = <<>>
  /\ selected' = Append(selected, SymOf(tokens[ti]))
  /\ searches' = searches + 1
  /\ pc' = "end"
  /\ outcome' = "Aborted"
  /\ exitStatus' = 1
  /\ UNCHANGED <<remaining, next_syms, tokens, ti, result, seedPool>>
  /\ UNCHANGED <<rounds, cleanVars, extractVars>>

\* line 164-165: already added, warning, next token
TokDuplicate ==
  /\ AtToken
  /\ ~Rejected(tokens[ti])
  /\ selected # <<>>
  /\ AlreadyAdded(SymOf(tokens[ti]), selected)
  /\ ti' = ti + 1
  /\ UNCHANGED <<selected, remaining, next_syms, tokens, pc, outcome, result, exitStatus, searches, seedPool>>
  /\ UNCHANGED <<rounds, cleanVars, extractVars>>

\* line 166-178: a new symptom filters the pool, candidates remain
TokFilter ==
  /\ AtToken
  /\ ~Rejected(tokens[ti])
  /\ selected # <<>>
  /\ ~AlreadyAdded(SymOf(tokens[ti]), selected)
  /\ ~Exhausts(FilterPool(remaining, SymOf(tokens[ti])))
  /\ selected' = Append(selected, SymOf(tokens[ti]))
  /\ remaining' = FilterPool(remaining, SymOf(tokens[ti]))
  /\ ti' = ti + 1
  /\ UNCHANGED <<next_syms, tokens, pc, outcome, result, exitStatus, searches, seedPool>>
  /\ UNCHANGED <<rounds, cleanVars, extractVars>>

\* line 166-178: a new symptom filters the pool to nothing, sys.exit(1)
TokFilterExhausted ==
  /\ AtToken
  /\ ~Rejected(tokens[ti])
  /\ selected # <<>>
  /\ ~AlreadyAdded(SymOf(tokens[ti]), selected)
  /\ Exhausts(FilterPool(remaining, SymOf(tokens[ti])))
  /\ selected' = Append(selected, SymOf(tokens[ti]))
  /\ remaining' = FilterPool(remaining, SymOf(tokens[ti]))
  /\ pc' = "end"
  /\ outcome' = "Exhausted"
  /\ exitStatus' = 1
  /\ UNCHANGED <<next_syms, tokens, ti, result, searches, seedPool>>
  /\ UNCHANGED <<rounds, cleanVars, extractVars>>

\* line 141, 180: the for loop is over, back to the top of the while loop;
\* the batch is not read again before line 140 replaces it
BatchEnd ==
  /\ pc = "tokens"
  /\ ti > Len(tokens)
  /\ pc' = "top"
  /\ tokens' = <<>>
  /\ ti' = 1
  /\ UNCHANGED <<selected, remaining, next_syms, outcome, result, exitStatus, searches, seedPool>>
  /\ UNCHANGED <<rounds, cleanVars, extractVars>>

Next ==
  \/ RoundDiagnosed
  \/ RoundAmbiguous
  \/ RoundPrompt
  \/ ReadDone
  \/ ReadBatch
  \/ TokInvalidNumber
  \/ TokSeed
  \/ TokSeedEmpty
  \/ TokSeedSearchFails
  \/ TokDuplicate
  \/ TokFilter
  \/ TokFilterExhausted
  \/ BatchEnd

Spec == Init /\ [][Next]_vars

\* line 135-141 for a user who, once the seed is in, answers every prompt
\* with a batch that holds a valid checklist number; these batches are counted
ReadNumberedBatch ==
  /\ ReadTokens
  /\ selected # <<>> => HasValidNumber(tokens', next_syms)
  /\ rounds' = IF selected = <<>> THEN rounds ELSE rounds + 1

NextNumbered ==
  \/ RoundDiagnosed
  \/ RoundAmbiguous
  \/ RoundPrompt
  \/ ReadNumberedBatch
  \/ TokInvalidNumber
  \/ TokSeed
  \/ TokSeedEmpty
  \/ TokSeedSearchFails
  \/ TokDuplicate
  \/ TokFilter
  \/ TokFilterExhausted
  \/ BatchEnd

\* the loop is sequential and the prompt is always answered
SpecNumbered == Init /\ [][NextNumbered]_vars /\ WF_vars(NextNumbered)

TypeOK ==
  /\ pc \in {"top", "prompt", "tokens", "end"}
  /\ outcome \in {"none", "Diagnosed", "Ambiguous", "Exhausted", "Aborted"}
  /\ Range(selected) \subseteq Tokens
  /\ tokens \in Batches
  /\ ti \in 1..(MaxBatch + 1)
  /\ exitStatus \in {0, 1}

\* ======================= clean_text =======================

\* most pieces a string given to clean_text is made of
MaxParts == 5

\* the pieces strings are made of: parentheses, a citation, the letters of
\* "see" (upper and lower case), a trimmed character, a newline
CleanPieces == {
  <<"(">>, <<")">>, <<"[", "1", "]">>, <<"s">>, <<"e", "e">>, <<"S", "E", "E">>,
  <<";">>, <<"\n">> }

\* the strings given to clean_text: up to n pieces, one after the other
RECURSIVE StringsUpTo(_)
StringsUpTo(n) ==
  IF n = 0 THEN {<<>>}
  ELSE LET shorter == StringsUpTo(n - 1)
       IN shorter \cup {x \o c : x \in shorter, c \in CleanPieces}

\* str.lower() on one character
LowerChar(c) ==
  CASE c = "A" -> "a"
    [] c = "E" -> "e"
    [] c = "L" -> "l"
    [] c = "S" -> "s"
    [] OTHER -> c

\* the characters `.` does not match
IsNewline(c) == c = "\n"

\* the least element of a set of positions, 0 if there is none
MinOrZero(S) == IF S = {} THEN 0 ELSE CHOOSE x \in S : \A y \in S : x <= y

\* line 32, `.*?` followed by the literal ch: the first ch at or after from
\* with no newline before it, or 0
CloseAt(s, from, ch) ==
  LET j == MinOrZero({x \in from..Len(s) : s[x] = ch \/ IsNewline(s[x])})
  IN IF j > 0 /\ s[j] = ch THEN j ELSE 0

\* line 32, `see` under re.IGNORECASE at position k
IsSeeAt(s, k) ==
  /\ k + 2 <= Len(s)
  /\ LowerChar(s[k]) = "s" /\ LowerChar(s[k + 1]) = "e" /\ LowerChar(s[k + 2]) = "e"

\* line 32, `.*?see`: the first `see` at or after from with no newline
\* before it, or 0
SeeAt(s, from) ==
  LET j == MinOrZero({x \in from..Len(s) : IsSeeAt(s, x) \/ IsNewline(s[x])})
  IN IF j > 0 /\ IsSeeAt(s, j) THEN j ELSE 0

\* line 32: the last position of the match of
\* \[.*?\]|\(.*?see.*?\) that starts at i, or 0
MatchEnd(s, i) ==
  IF s[i] = "[" THEN CloseAt(s, i + 1, "]")
  ELSE IF s[i] = "(" THEN
    LET k == SeeAt(s, i + 1)
    IN IF k = 0 THEN 0 ELSE CloseAt(s, k + 3, ")")
  ELSE 0

\* line 32: re.sub(..., "", txt), leftmost non-overlapping matches removed
\* in one scan from position i: the text up to the next match is kept and the
\* scan goes on after the match
RECURSIVE RemoveMatches(_, _)
RemoveMatches(s, i) ==
  LET p == MinOrZero({x \in i..Len(s) : s[x] \in {"[", "("} /\ MatchEnd(s, x) > 0})
  IN IF p = 0 THEN SubSeq(s, i, Len(s))
     ELSE SubSeq(s, i, p - 1) \o RemoveMatches(s, MatchEnd(s, p) + 1)

\* line 33: the characters strip removes
StripChars == {" ", ".", "\n", "\t", ";"}

\* line 33: lstrip, the text from its first character that is kept
LStrip(s) ==
  LET a == MinOrZero({x \in 1..Len(s) : s[x] \notin StripChars})
  IN IF a = 0 THEN <<>> ELSE SubSeq(s, a, Len(s))

\* line 33: rstrip, the text up to its last character that is kept
RStrip(s) ==
  LET keep == {x \in 1..Len(s) : s[x] \notin StripChars}
  IN IF keep = {} THEN <<>>
     ELSE SubSeq(s, 1, CHOOSE x \in keep : \A y \in keep : y <= x)

\* line 33
Strip(s) == RStrip(LStrip(s))

\* line 30-33
clean_text(s) == Strip(RemoveMatches(s, 1))

\* the pattern of line 32 matches somewhere in s
HasMatch(s) == \E i \in 1..Len(s) : MatchEnd(s, i) > 0

\* a string is given to clean_text
InitClean ==
  /\ txt \in StringsUpTo(MaxParts)
  /\ prev = txt
  /\ passes = 0
  /\ MainInit
  /\ ExtractIdle

\* clean_text is called on the string, then on what it returned
CleanPass ==
  /\ passes < 2
  /\ prev' = txt
  /\ txt' = clean_text(txt)
  /\ passes' = passes + 1
  /\ UNCHANGED <<mainVars, extractVars>>

NextClean == CleanPass

SpecClean == InitClean /\ [][NextClean]_vars

\* ============== extract_symptoms_from_infobox ==============

\* most elements in the value cell
MaxNodes == 5

\* line 51, 59: shortest and longest text kept
MinSymLen == 3

MaxSymLen == 60

\* line 54: the list-item tier is enough from this many items on
FallbackBelow == 4

\* a text longer than MaxSymLen
LongText == [i \in 1..61 |-> "x"]

\* the elements a value cell is made of: a list item (li) or other content,
\* each with its text nodes in document order
CellNodes == {
  [li |-> TRUE,  texts |-> << <<"a", "b", "c">> >>],
  [li |-> TRUE,  texts |-> << <<"c", "c", "c">>, <<"[", "1", "]">> >>],
  [li |-> TRUE,  texts |-> << LongText >>],
  [li |-> TRUE,  texts |-> << <<"(", "s">>, <<"[", "1", "]">>, <<"e", "e", ")">> >>],
  [li |-> FALSE, texts |-> << <<"E", "e", "e", ",", "f", "f", "f", ",", " ", "g", "g", "g", ",",
                               "h", "h", "h", ",", "i", "i", "i", ".">> >>],
  [li |-> FALSE, texts |-> << <<"L", "a", "t", "e", "n", "t", " ", "x">> >>] }

\* the value cells given to the extractor: up to n elements
RECURSIVE CellsUpTo(_)
CellsUpTo(n) ==
  IF n = 0 THEN {<<>>}
  ELSE LET shorter == CellsUpTo(n - 1)
       IN shorter \cup {Append(x, nd) : x \in shorter, nd \in CellNodes}

\* str.lower()
LowerStr(s) == [i \in 1..Len(s) |-> LowerChar(s[i])]

\* the strings of a sequence one after the other, sep between them
RECURSIVE Join(_, _)
Join(ss, sep) ==
  IF ss = <<>> THEN <<>>
  ELSE IF Len(ss) = 1 THEN ss[1]
  ELSE ss[1] \o sep \o Join(Tail(ss), sep)

\* line 50: li.get_text(), the text nodes of the item with nothing between
ItemText(nd) == Join(nd.texts, <<>>)

\* every text node of the cell, in document order
RECURSIVE TextNodes(_)
TextNodes(c) ==
  IF c = <<>> THEN <<>> ELSE Head(c).texts \o TextNodes(Tail(c))

\* line 55: td.get_text(separator=";")
RawText(c) == Join(TextNodes(c), <<";">>)

\* line 56: the positions of the separators of re.split(r"[;,]", raw)
SepPositions(s) == {i \in 1..Len(s) : s[i] \in {";", ","}}

\* the k-th smallest element of a set of positions
KthOf(S, k) == CHOOSE p \in S : Cardinality({q \in S : q <= p}) = k

\* line 56: re.split(r"[;,]", raw), the texts between the separators
SplitParts(s) ==
  LET seps == SepPositions(s)
      n == Cardinality(seps)
      from(k) == IF k = 1 THEN 1 ELSE KthOf(seps, k - 1) + 1
      to(k) == IF k = n + 1 THEN Len(s) ELSE KthOf(seps, k) - 1
  IN [k \in 1..(n + 1) |-> SubSeq(s, from(k), to(k))]

\* line 51, 59
LengthOk(t) == MinSymLen <= Len(t) /\ Len(t) <= MaxSymLen

\* line 60: the prefixes of editorial phrases
Boilerplate == {
  <<"s", "o", "m", "e", " ", "c", "a", "s", "e", "s">>,
  <<"r", "e", "c", "u", "r", "r", "i", "n", "g">>,
  <<"l", "a", "t", "e", "n", "t">> }

\* line 60: re.match(r"^(some cases|recurring|latent)", t, re.IGNORECASE)
IsBoilerplate(t) ==
  \E b \in Boilerplate : Len(b) <= Len(t) /\ LowerStr(SubSeq(t, 1, Len(b))) = b

\* line 49-52: the list items, cleaned, kept by length, lower-cased
Tier1(c) ==
  LET lis == SelectSeq(c, LAMBDA nd : nd.li)
      cleaned == [k \in 1..Len(lis) |-> clean_text(ItemText(lis[k]))]
      kept == SelectSeq(cleaned, LengthOk)
  IN [k \in 1..Len(kept) |-> LowerStr(kept[k])]

\* line 56-62: the parts of the split, cleaned, kept by length and prefix
KeepParts(ps) ==
  LET cleaned == [k \in 1..Len(ps) |-> clean_text(ps[k])]
      kept == SelectSeq(cleaned, LAMBDA t : LengthOk(t) /\ ~IsBoilerplate(t))
  IN [k \in 1..Len(kept) |-> LowerStr(kept[k])]

\* line 55-62
Tier2(c) == KeepParts(SplitParts(RawText(c)))

\* line 54 with the count taken after removing duplicates
FallbackNeededAfterDedupe(its) == Cardinality(Range(its)) < FallbackBelow

\* line 54
FallbackNeeded(its) == Len(its) < FallbackBelow

\* line 64: list(dict.fromkeys(items)), first occurrences in order
Dedupe(its) ==
  LET first == {i \in 1..Len(its) : \A j \in 1..(i - 1) : its[j] # its[i]}
  IN [k \in 1..Cardinality(first) |-> its[KthOf(first, k)]]

\* line 47-64
extract_symptoms(c) ==
  LET t1 == Tier1(c)
  IN Dedupe(IF FallbackNeeded(t1) THEN t1 \o Tier2(c) ELSE t1)

\* a value cell is given to the extractor
InitExtract ==
  /\ cell \in CellsUpTo(MaxNodes)
  /\ items = <<>>
  /\ extracted = FALSE
  /\ MainInit
  /\ CleanIdle

\* line 47-64: the extractor returns
Extract ==
  /\ ~extracted
  /\ items' = extract_symptoms(cell)
  /\ extracted' = TRUE
  /\ UNCHANGED <<cell, mainVars, cleanVars>>

NextExtract == Extract

SpecExtract == InitExtract /\ [][NextExtract]_vars

\* ======================= claims =======================

\* the token the for loop is at
CurTok == tokens[ti]

\* the token is a number and a checklist is in effect (selections made and
\* a non-empty checklist shown at the start of the round)
ChecklistNumber(tok) == IsDigit(tok) /\ selected # <<>> /\ next_syms # <<>>

\* the number of the token is a 1-based position of the checklist
ValidPosition(tok) == 1 <= IntOf(tok) /\ IntOf(tok) <= Len(next_syms)

\* C1 (as stated): every candidate in remaining has an empty symptom list or
\* lists every symptom in selected, the seed symptom included.
C1_Original ==
  \A c \in Range(remaining) : c.symptoms = {} \/ Range(selected) \subseteq c.symptoms

\* C1 (amended): every candidate in remaining has an empty symptom list or
\* lists every symptom in selected other than the seed symptom selected[1];
\* the seed search keeps a page whether or not its list has the seed symptom.
C1_Amended ==
  \A c \in Range(remaining) :
    c.symptoms = {} \/ \A i \in 2..Len(selected) : selected[i] \in c.symptoms

\* a filter has removed a candidate and one with symptoms survives, which
\* does not list the seed symptom
C1_Witness ==
  /\ Len(selected) >= 2
  /\ Len(remaining) < Len(seedPool)
  /\ \E c \in Range(remaining) : c.symptoms # {} /\ selected[1] \notin c.symptoms

\* C2: once the seed is in, every step leaves remaining a subset of what it
\* was (its size does not grow), and remaining only ever holds candidates
\* the seed search returned.
C2_PoolMonotone ==
  [][ /\ selected # <<>> =>
           /\ Range(remaining') \subseteq Range(remaining)
           /\ Len(remaining') <= Len(remaining)
      /\ Range(remaining') \subseteq Range(seedPool') ]_vars

\* two filters have acted and the pool has shrunk but is not empty
C2_Witness ==
  /\ Len(selected) >= 3
  /\ Len(remaining) < Len(seedPool)
  /\ remaining # <<>>

\* C3: no step removes a candidate with an empty symptom list from
\* remaining, whatever token is processed.
C3_EmptyRetained ==
  [][ \A c \in Range(remaining) : c.symptoms = {} => c \in Range(remaining') ]_vars

\* a filter removed every candidate with symptoms; the one without stays
C3_Witness ==
  /\ Len(selected) >= 2
  /\ Len(remaining) < Len(seedPool)
  /\ remaining # <<>>
  /\ \A c \in Range(remaining) : c.symptoms = {}

\* C4 (as stated): at the prompt and while the tokens of a batch are being
\* processed, no element of next_syms is in selected.
C4_Original ==
  pc \in {"prompt", "tokens"} =>
    \A i \in 1..Len(next_syms) : next_syms[i] \notin Range(selected)

\* C4 (amended): no element of next_syms is in selected at the prompt and
\* when the first token of the batch is reached; next_syms is not recomputed
\* during the batch, so a symptom accepted from it stays in it.
C4_Amended ==
  (pc = "prompt" \/ (pc = "tokens" /\ ti = 1)) =>
    \A i \in 1..Len(next_syms) : next_syms[i] \notin Range(selected)

\* a checklist is shown while a surviving candidate lists a selected symptom
C4_Witness ==
  /\ pc = "prompt"
  /\ next_syms # <<>>
  /\ \E c \in Range(remaining) : c.symptoms \cap Range(selected) # {}

\* C5: at the top of a round with selections made and no unselected symptom
\* among the survivors, the run ends: Diagnosed with the sole candidate if
\* one remains, Ambiguous with all of remaining if more than one remains;
\* otherwise the loop goes to the prompt.
C5_RoundTermination ==
  [][ pc = "top" =>
        LET noNew == \A c \in Range(remaining) : c.symptoms \subseteq Range(selected)
        IN IF selected # <<>> /\ noNew
           THEN /\ pc' = "end"
                /\ Len(remaining) >= 1
                /\ Len(remaining) = 1 =>
                     outcome' = "Diagnosed" /\ result' = <<remaining[1].name>>
                /\ Len(remaining) > 1 =>
                     outcome' = "Ambiguous" /\ result' = Names(remaining)
           ELSE pc' = "prompt" /\ outcome' = "none" ]_vars

\* the run ended at the top of a round with several candidates left
C5_Witness ==
  /\ pc = "end"
  /\ outcome = "Ambiguous"
  /\ selected # <<>>
  /\ next_syms = <<>>
  /\ Len(remaining) > 1
  /\ result = Names(remaining)

\* C6: a token that is accepted (the search having returned) and leaves
\* remaining empty ends the run in Exhausted with exit status 1 and no
\* result, and nothing happens after Exhausted.
C6_Exhausted ==
  [][ /\ (pc = "tokens" /\ selected' # selected /\ remaining' = <<>> /\ outcome' # "Aborted") =>
           (pc' = "end" /\ outcome' = "Exhausted" /\ exitStatus' = 1 /\ result' = <<>>)
      /\ outcome # "Exhausted" ]_vars

\* a filter emptied the pool while a token of the batch was still to come
C6_Witness ==
  /\ outcome = "Exhausted"
  /\ Len(selected) >= 2
  /\ seedPool # <<>>
  /\ ti < Len(tokens)

\* C7: a token whose symptom (the literal, or the checklist entry of a valid
\* number) is already in selected changes neither selected nor remaining,
\* and the loop moves to the next token of the batch.
C7_Duplicate ==
  [][ (/\ pc = "tokens" /\ ti <= Len(tokens)
       /\ selected # <<>>
       /\ \/ ~ChecklistNumber(CurTok) /\ CurTok \in Range(selected)
          \/ /\ ChecklistNumber(CurTok) /\ ValidPosition(CurTok)
             /\ next_syms[IntOf(CurTok)] \in Range(selected))
      => /\ selected' = selected
         /\ remaining' = remaining
         /\ pc' = "tokens" /\ tokens' = tokens /\ ti' = ti + 1
         /\ outcome' = "none" ]_vars

\* the seed symptom was typed again in a later round and the next token of
\* the batch, a symptom of the checklist, was then accepted
C7_Witness ==
  /\ pc = "tokens" /\ ti = 3
  /\ next_syms # <<>>
  /\ tokens[1] = selected[1]
  /\ ~IsDigit(tokens[1])
  /\ ~IsDigit(tokens[2])
  /\ selected[Len(selected)] = tokens[2]
  /\ tokens[2] \in Range(next_syms)

C9_Original ==
  [][ (/\ pc = "tokens" /\ ti <= Len(tokens)
       /\ ChecklistNumber(CurTok) /\ ValidPosition(CurTok))
      => /\ \E c \in Range(remaining) : next_syms[IntOf(CurTok)] \in c.symptoms
         /\ outcome' # "Exhausted" ]_vars

\* C9 (amended): for the first token of a batch, the symptom a valid
\* checklist number resolves to is listed by a candidate in remaining, and
\* the step does not end in Exhausted; later numbers of the batch index the
\* checklist of the start of the round and can empty the pool.
C9_Amended ==
  [][ (/\ pc = "tokens" /\ ti = 1 /\ ti <= Len(tokens)
       /\ ChecklistNumber(CurTok) /\ ValidPosition(CurTok))
      => /\ \E c \in Range(remaining) : next_syms[IntOf(CurTok)] \in c.symptoms
         /\ remaining' # <<>>
         /\ outcome' # "Exhausted" ]_vars

\* a checklist number, first of its batch, filtered the pool
C9_Witness ==
  /\ pc = "tokens" /\ ti = 2
  /\ next_syms # <<>>
  /\ IsDigit(tokens[1]) /\ 1 <= IntOf(tokens[1]) /\ IntOf(tokens[1]) <= Len(next_syms)
  /\ selected[Len(selected)] = next_syms[IntOf(tokens[1])]
  /\ Len(remaining) < Len(seedPool)
  /\ remaining # <<>>

\* C10 (as stated): the search is called only while selected is empty, and
\* a run that has ended has called it exactly once.
C10_Original ==
  /\ pc = "end" => searches = 1
  /\ selected # <<>> => searches = 1

\* C11 (as stated): 'done' ends the run only with selected non-empty; the
\* result is Diagnosed with the sole candidate if one remains, otherwise
\* Ambiguous with the current, non-empty remaining as the shortlist.
C11_Original ==
  [][ (pc = "prompt" /\ pc' = "end") =>
        /\ selected # <<>>
        /\ remaining # <<>>
        /\ Len(remaining) = 1 =>
             outcome' = "Diagnosed" /\ result' = <<remaining[1].name>>
        /\ Len(remaining) # 1 =>
             outcome' = "Ambiguous" /\ result' = Names(remaining) ]_vars

\* the candidates of the seed pool that have no symptom list or list every
\* selected symptom after the seed
SurvivorsOf(sel) ==
  SelectSeq(seedPool,
            LAMBDA c : c.symptoms = {} \/ \A s \in {sel[i] : i \in 2..Len(sel)} : s \in c.symptoms)

\* C12: once the search has returned, remaining is the seed pool restricted
\* to the candidates with no symptoms or with every non-seed selected
\* symptom, whatever the order the symptoms were given in, and the run is
\* Exhausted exactly when that restriction is empty.
C12_OrderIndependent ==
  (selected # <<>> /\ outcome # "Aborted") =>
    /\ remaining = SurvivorsOf(selected)
    /\ (SurvivorsOf(selected) = <<>>) <=> (outcome = "Exhausted")

\* two symptoms were given against the string order and the pool shrank
C12_Witness ==
  /\ Len(selected) >= 3
  /\ Rank(selected[2]) > Rank(selected[3])
  /\ remaining # <<>>
  /\ Len(remaining) < Len(seedPool)
  /\ \E c \in Range(remaining) : c.symptoms # {}

\* C16: a numeric token is read as a checklist position only when selected
\* and the checklist of the round are both non-empty (it is then rejected,
\* or stands for that checklist entry); otherwise it is applied as the
\* literal string, as the seed or through the filter.
C16_NumberReading ==
  [][ (pc = "tokens" /\ ti <= Len(tokens) /\ IsDigit(CurTok)) =>
        IF selected # <<>> /\ next_syms # <<>>
        THEN \/ selected' = selected
             \/ /\ ValidPosition(CurTok)
                /\ selected' = Append(selected, next_syms[IntOf(CurTok)])
        ELSE \/ selected' = Append(selected, CurTok)
             \/ CurTok \in Range(selected) /\ selected' = selected ]_vars

\* in the batch of the seed a number was applied as a literal by the filter
C16_Witness ==
  /\ pc = "tokens"
  /\ next_syms = <<>>
  /\ Len(selected) >= 2
  /\ IsDigit(selected[Len(selected)])
  /\ ~IsDigit(selected[1])
  /\ remaining # <<>>

\* C17: at the prompt with selected non-empty, remaining and next_syms are
\* both non-empty.
C17_PromptState ==
  (pc = "prompt" /\ selected # <<>>) => (remaining # <<>> /\ next_syms # <<>>)

\* the prompt of a round after two symptoms were accepted
C17_Witness ==
  /\ pc = "prompt"
  /\ Len(selected) >= 2
  /\ Len(remaining) < Len(seedPool)

\* C18: selected never holds a symptom twice, and a step either leaves it
\* as it is or appends exactly one symptom that was not in it; a step that
\* searches or filters appends one.
C18_NoDuplicates ==
  [][ /\ \A i, j \in 1..Len(selected') : selected'[i] = selected'[j] => i = j
      /\ \/ selected' = selected
         \/ /\ Len(selected') = Len(selected) + 1
            /\ SubSeq(selected', 1, Len(selected)) = selected
            /\ selected'[Len(selected')] \notin Range(selected)
      /\ (searches' # searches \/ remaining' # remaining) =>
           Len(selected') = Len(selected) + 1 ]_vars

\* a new symptom typed twice in one batch was appended once
C18_Witness ==
  /\ pc = "tokens" /\ ti = 3
  /\ tokens[1] = tokens[2]
  /\ tokens[1] \in Range(next_syms)
  /\ selected[Len(selected)] = tokens[1]
  /\ Len(selected) >= 2

\* the distinct symptoms of the candidates the search returned
SeedSymptoms == UNION {seedPool[i].symptoms : i \in 1..Len(seedPool)}

\* C19: with every batch after the seed holding a valid checklist number,
\* no more batches are read than the seed pool has distinct symptoms, and
\* the run that has its seed pool reaches Diagnosed, Ambiguous or Exhausted.
C19_NumberedTermination ==
  /\ [](rounds <= Cardinality(SeedSymptoms))
  /\ (selected # <<>> /\ outcome # "Aborted") ~>
       (pc = "end" /\ outcome \in {"Diagnosed", "Ambiguous", "Exhausted"})

\* the run ended after as many numbered batches as the pool has symptoms
C19_Witness ==
  /\ pc = "end"
  /\ outcome \in {"Diagnosed", "Ambiguous"}
  /\ rounds >= 2
  /\ rounds = Cardinality(SeedSymptoms)

\* C13 (as stated): clean_text applied to its own result returns it
\* unchanged, for every string.
C13_Original ==
  passes = 2 => txt = prev

\* C14 (as stated): every returned item has length in [3,60], is
\* lower-case, holds no citation and no parenthetical with "see" (the
\* pattern of clean_text matches nowhere in it), and no item is returned
\* twice.
C14_Original ==
  extracted =>
    /\ \A i \in 1..Len(items) :
         /\ 3 <= Len(items[i]) /\ Len(items[i]) <= 60
         /\ \A k \in 1..Len(items[i]) : items[i][k] \notin {"A", "E", "L", "S"}
         /\ ~HasMatch(items[i])
    /\ \A i, j \in 1..Len(items) : items[i] = items[j] => i = j

\* the phrases in t2 that are not in t1
Further(t1, t2) == Range(t2) \ Range(t1)

\* C15: with four or more list items kept (duplicates counted) every
\* returned item comes from a list item; with fewer, every phrase the split
\* keeps is returned; with exactly three kept and five further phrases from
\* the split, more than three items are returned.
C15_FallbackThreshold ==
  extracted =>
    LET t1 == Tier1(cell)
        t2 == Tier2(cell)
    IN /\ Len(t1) >= 4 => Range(items) \subseteq Range(t1)
       /\ Len(t1) < 4 => Range(t2) \subseteq Range(items)
       /\ (Len(t1) = 3 /\ Cardinality(Further(t1, t2)) >= 5) => Len(items) > 3

\* three list items kept, the split added five further phrases
C15_Witness ==
  /\ extracted
  /\ Len(items) > 3
  /\ LET t1 == Tier1(cell)
     IN Len(t1) = 3 /\ Cardinality(Further(t1, Tier2(cell))) >= 5

====
